---------------------------- MODULE Spec2Model ----------------------------
(***************************************************************************)
(* A model of csv2pdf-cli (src/main.py): a one-shot command line tool that *)
(* loads a CSV of purchases, validates it, renders an HTML receipt from a  *)
(* template and writes it as a timestamped PDF.                            *)
(*                                                                         *)
(* Text is modelled as sequences of one-character strings, so that         *)
(* strip(), lower(), Decimal(text), str.isdigit(), the .2f format and the  *)
(* placeholder regular expression are computed, not assumed.               *)
(***************************************************************************)
EXTENDS Integers, Sequences, FiniteSets, TLC

VARIABLES
    priceRaw, priceOut,     \* parse_price: argument and outcome
    tplText, tplOut,        \* ensure_placeholders: argument and outcome
    csvFile, csvOut,        \* read_csv_rows: the file at csv_path and the outcome
    pc,                     \* main(): position of the running process
    args,                   \* main(): the parsed command line of the run
    loaded,                 \* main(): items, total = read_csv_rows(...)
    html,                   \* main(): html_content
    pdf_path,               \* main(): pdf_path
    err,                    \* main(): the exception in flight
    stdout,                 \* lines printed by the run
    exitCode,               \* process exit status of the run
    outDir,                 \* the output directory: exists, and its files
    now,                    \* wall clock, in whole seconds
    runs,                   \* number of runs started
    trace,                  \* history of the run: stages entered, the failing stage
    produced                \* history: the PDF paths of the successful runs

vars == <<priceRaw, priceOut, tplText, tplOut, csvFile, csvOut, pc, args, loaded,
          html, pdf_path, err, stdout, exitCode, outDir, now, runs, trace, produced>>

-----------------------------------------------------------------------------
(* Bounds of the model *)

MaxPriceLen == 3    \* parse_price is applied to every text of up to this length
MaxRows == 2        \* lines after the header line of a CSV file
MaxRuns == 2        \* runs of main() into the same output directory
MaxClock == 3       \* the clock reads 0..MaxClock ticks
TicksPerSecond == 2 \* clock readings that fall within one second

(* decimal.getcontext().prec, the default context used by Decimal arithmetic *)
DecimalPrec == 28

-----------------------------------------------------------------------------
(* Python values *)

None == <<"<None>">>
NoValue == [kind |-> "none"]

(* x or "" *)
OrEmpty(v) == IF v = None THEN <<>> ELSE v

Whitespace == {" ", "\t", "\n"}
DecDigits == {"0", "1", "2", "3", "4", "5", "6", "7", "8", "9"}
LowerLetters == <<"a","b","c","d","e","f","g","h","i","j","k","l","m",
                  "n","o","p","q","r","s","t","u","v","w","x","y","z">>
UpperLetters == <<"A","B","C","D","E","F","G","H","I","J","K","L","M",
                  "N","O","P","Q","R","S","T","U","V","W","X","Y","Z">>
Range(s) == {s[i] : i \in DOMAIN s}

(* "^2" stands for the one character U+00B2 (superscript two): str.isdigit() *)
(* accepts it, int() does not.                                               *)
Superscript2 == "^2"

(* str.strip() *)
RECURSIVE LStrip(_)
LStrip(s) == IF s # <<>> /\ Head(s) \in Whitespace THEN LStrip(Tail(s)) ELSE s
RECURSIVE RStrip(_)
RStrip(s) == IF s # <<>> /\ s[Len(s)] \in Whitespace
             THEN RStrip(SubSeq(s, 1, Len(s) - 1)) ELSE s
Strip(s) == RStrip(LStrip(s))

(* str.lower() *)
LowerChar(c) == IF \E i \in DOMAIN UpperLetters : UpperLetters[i] = c
                THEN LowerLetters[CHOOSE i \in DOMAIN UpperLetters : UpperLetters[i] = c]
                ELSE c
RECURSIVE Lower(_)
Lower(s) == IF s = <<>> THEN <<>> ELSE <<LowerChar(Head(s))>> \o Lower(Tail(s))

(* str.isdigit() *)
IsDigitStr(s) == s # <<>> /\ \A i \in DOMAIN s : s[i] \in DecDigits \cup {Superscript2}

AllDecDigits(s) == \A i \in DOMAIN s : s[i] \in DecDigits
DigitVal(c) == CHOOSE n \in 0..9 : <<"0","1","2","3","4","5","6","7","8","9">>[n + 1] = c
RECURSIVE DigitsValue(_)
DigitsValue(s) == IF s = <<>> THEN 0
                  ELSE 10 * DigitsValue(SubSeq(s, 1, Len(s) - 1)) + DigitVal(s[Len(s)])
DigitOf(n) == <<"0","1","2","3","4","5","6","7","8","9">>[n + 1]
RECURSIVE IntToStr(_)
IntToStr(n) == IF n < 10 THEN <<DigitOf(n)>> ELSE Append(IntToStr(n \div 10), DigitOf(n % 10))
RECURSIVE Pow10(_)
Pow10(k) == IF k = 0 THEN 1 ELSE 10 * Pow10(k - 1)
NumDigits(n) == Len(IntToStr(n))

(* position of the first element of s that is in cs, 0 if none *)
FirstIn(s, cs) == IF \E i \in DOMAIN s : s[i] \in cs
                  THEN CHOOSE i \in DOMAIN s : s[i] \in cs /\ \A j \in 1..(i - 1) : s[j] \notin cs
                  ELSE 0

(* outcomes of a call: a returned value or a raised exception *)
Return(v) == [ok |-> TRUE, val |-> v, exc |-> "", msg |-> "", detail |-> <<>>]
Raise(e, m, d) == [ok |-> FALSE, val |-> NoValue, exc |-> e, msg |-> m, detail |-> d]
RaiseCli(m, d) == Raise("CliError", m, d)

-----------------------------------------------------------------------------
(* decimal.Decimal *)

Fin(neg, coef, exp) == [kind |-> "fin", neg |-> neg, coef |-> coef, exp |-> exp]
NaN(neg) == [kind |-> "nan", neg |-> neg, coef |-> 0, exp |-> 0]
Inf(neg) == [kind |-> "inf", neg |-> neg, coef |-> 0, exp |-> 0]
BadLiteral == [kind |-> "bad", neg |-> FALSE, coef |-> 0, exp |-> 0]

(* the exponent part of a numeric literal: an optional sign, then digits *)
ExpOk(s) == LET body == IF s # <<>> /\ Head(s) \in {"+", "-"} THEN Tail(s) ELSE s
            IN body # <<>> /\ AllDecDigits(body)
ExpVal(s) == IF s # <<>> /\ Head(s) = "-" THEN 0 - DigitsValue(Tail(s))
             ELSE IF s # <<>> /\ Head(s) = "+" THEN DigitsValue(Tail(s))
             ELSE DigitsValue(s)

(* the unsigned numeric literal: digits with at most one point and at least *)
(* one digit, then an optional exponent *)
NumericLiteral(neg, body) ==
    LET e == FirstIn(body, {"e", "E"})
        mant == IF e = 0 THEN body ELSE SubSeq(body, 1, e - 1)
        expo == IF e = 0 THEN <<>> ELSE SubSeq(body, e + 1, Len(body))
        dot == FirstIn(mant, {"."})
        int == IF dot = 0 THEN mant ELSE SubSeq(mant, 1, dot - 1)
        frac == IF dot = 0 THEN <<>> ELSE SubSeq(mant, dot + 1, Len(mant))
    IN IF /\ AllDecDigits(int) /\ AllDecDigits(frac)
          /\ Len(int) + Len(frac) > 0
          /\ (e = 0 \/ ExpOk(expo))
       THEN Fin(neg, DigitsValue(int \o frac), (IF e = 0 THEN 0 ELSE ExpVal(expo)) - Len(frac))
       ELSE BadLiteral

(* Decimal(text): the value, or BadLiteral where the constructor raises          *)
(* InvalidOperation. Literals: an optional sign, then a number, Inf, Infinity,   *)
(* NaN or sNaN with optional payload digits; letters in any case.                *)
Decimal(text) ==
    LET t == Strip(text)
        signed == t # <<>> /\ Head(t) \in {"+", "-"}
        neg == t # <<>> /\ Head(t) = "-"
        body == IF signed THEN Tail(t) ELSE t
        low == Lower(body)
        nanAt == IF low # <<>> /\ Head(low) = "s" THEN Tail(low) ELSE low
    IN IF low \in {<<"i","n","f">>, <<"i","n","f","i","n","i","t","y">>} THEN Inf(neg)
       ELSE IF Len(nanAt) >= 3 /\ SubSeq(nanAt, 1, 3) = <<"n","a","n">>
               /\ AllDecDigits(SubSeq(nanAt, 4, Len(nanAt))) THEN NaN(neg)
       ELSE NumericLiteral(neg, body)

(* value < 0 for a finite or infinite value *)
IsNegative(d) == d.neg /\ (d.kind = "inf" \/ d.coef # 0)

(* value.quantize(Decimal("0.01"), rounding=ROUND_HALF_UP): the coefficient in *)
(* hundredths, or -1 where quantize raises InvalidOperation (an infinity, or a *)
(* result of more than prec digits).                                           *)
QuantizeHalfUp(d) ==
    IF d.kind # "fin" THEN -1
    ELSE IF d.coef = 0 THEN 0
    ELSE IF d.exp >= -2
         THEN IF NumDigits(d.coef) + d.exp + 2 > DecimalPrec THEN -1
              ELSE d.coef * Pow10(d.exp + 2)
    ELSE \* k digits are dropped; a coefficient of the model has at most 9 digits
         LET k == (0 - 2) - d.exp
             q == IF k > 9 THEN 0 ELSE d.coef \div Pow10(k)
             r == IF k > 9 THEN d.coef ELSE d.coef % Pow10(k)
             up == IF k > 9 THEN FALSE ELSE 2 * r >= Pow10(k)
             c == IF up THEN q + 1 ELSE q
         IN IF NumDigits(c) > DecimalPrec THEN -1 ELSE c
(* f"{value:.2f}" of a value with two fractional digits *)
Format2(d) == (IF d.neg THEN <<"-">> ELSE <<>>) \o IntToStr(d.coef \div 100)
              \o <<".", DigitOf((d.coef % 100) \div 10), DigitOf(d.coef % 10)>>

-----------------------------------------------------------------------------
(* parse_price and parse_qty *)

parse_price(raw) ==
    LET text == Strip(OrEmpty(raw))
        value == Decimal(text)
        cents == QuantizeHalfUp(value)
    IN IF text = <<>> THEN RaiseCli("price is not given", <<>>)
       ELSE IF "," \in Range(text) /\ "." \notin Range(text)
            THEN RaiseCli("price must use a dot, not a comma", <<>>)
       ELSE IF value.kind = "bad" THEN RaiseCli("invalid price", text)
       \* value < 0 signals InvalidOperation when value is a NaN
       ELSE IF value.kind = "nan" THEN Raise("InvalidOperation", "", <<>>)
       ELSE IF IsNegative(value) THEN RaiseCli("price cannot be negative", text)
       ELSE IF cents = -1 THEN Raise("InvalidOperation", "", <<>>)
       ELSE Return(Fin(value.neg, cents, -2))

parse_qty(raw) ==
    LET text == Strip(OrEmpty(raw))
    IN IF text = <<>> THEN RaiseCli("quantity is not given", <<>>)
       ELSE IF ~IsDigitStr(text)
            THEN RaiseCli("quantity must be a non-negative integer", text)
       \* int(text)
       ELSE IF ~AllDecDigits(text) THEN Raise("ValueError", "", <<>>)
       ELSE Return(DigitsValue(text))

-----------------------------------------------------------------------------
(* The CSV file and the csv module *)

(* A file at csv_path: whether it exists, its lines, and the answer          *)
(* csv.Sniffer().sniff(sample, delimiters=",;") gives for it: one of the two *)
(* delimiters, or "Error" (csv.Error).                                       *)
CsvFileOf(exists, lines, sniff) == [exists |-> exists, lines |-> lines, sniff |-> sniff]

RECURSIVE SplitFields(_, _)
SplitFields(s, d) ==
    LET i == FirstIn(s, {d})
    IN IF i = 0 THEN <<s>>
       ELSE <<SubSeq(s, 1, i - 1)>> \o SplitFields(SubSeq(s, i + 1, Len(s)), d)

(* one row of csv.reader(fh, delimiter=d): an empty line reads as []; quoting *)
(* is not used by the files of the model                                      *)
ReaderRow(line, d) == IF line = <<>> THEN <<>> ELSE SplitFields(line, d)

(* csv.DictReader.fieldnames: the first row read; for a file of no lines it is *)
(* None, which "not reader.fieldnames" treats like the empty list             *)
Fieldnames(lines, d) == IF lines = <<>> THEN <<>> ELSE ReaderRow(lines[1], d)

(* faulty variant of DictRows: a row equal to the one after it is dropped *)
RECURSIVE DictRowsMerged(_, _)
DictRowsMerged(lines, d) ==
    IF lines = <<>> THEN <<>>
    ELSE IF ReaderRow(Head(lines), d) = <<>> THEN DictRowsMerged(Tail(lines), d)
    ELSE IF Len(lines) > 1 /\ lines[2] = lines[1] THEN DictRowsMerged(Tail(lines), d)
    ELSE <<ReaderRow(Head(lines), d)>> \o DictRowsMerged(Tail(lines), d)
(* the rows csv.DictReader yields: the rows after the first, empty rows skipped *)
RECURSIVE DictRows(_, _)
DictRows(lines, d) ==
    IF lines = <<>> THEN <<>>
    ELSE IF ReaderRow(Head(lines), d) = <<>> THEN DictRows(Tail(lines), d)
    ELSE <<ReaderRow(Head(lines), d)>> \o DictRows(Tail(lines), d)

(* row.get(key, default) on the dict DictReader builds from dict(zip(fieldnames, *)
(* row)): the last column of that name wins, a column the row is too short for   *)
(* holds restval = None                                                          *)
RowGet(fieldnames, row, key, default) ==
    LET cols == {j \in DOMAIN fieldnames : fieldnames[j] = key}
        last == CHOOSE j \in cols : \A k \in cols : k <= j
    IN IF cols = {} THEN default
       ELSE IF last <= Len(row) THEN row[last] ELSE None

(* sample.strip() is empty *)
BlankText(lines) == \A i \in DOMAIN lines : Strip(lines[i]) = <<>>

Str_product == <<"p","r","o","d","u","c","t">>
Str_price == <<"p","r","i","c","e">>
Str_qty == <<"q","t","y">>
Str_total == <<"t","o","t","a","l">>

(* str ordering by code point, for the lower-case words sorted() is applied to *)
CodePoint(c) == CHOOSE i \in DOMAIN LowerLetters : LowerLetters[i] = c
RECURSIVE StrLess(_, _)
StrLess(a, b) ==
    IF b = <<>> THEN FALSE
    ELSE IF a = <<>> THEN TRUE
    ELSE IF Head(a) = Head(b) THEN StrLess(Tail(a), Tail(b))
    ELSE CodePoint(Head(a)) < CodePoint(Head(b))
RECURSIVE Sorted(_)
Sorted(S) ==
    IF S = {} THEN <<>>
    ELSE LET m == CHOOSE x \in S : \A y \in S \ {x} : StrLess(x, y)
         IN <<m>> \o Sorted(S \ {m})

detect_delimiter(file) ==
    LET possible == {",", ";"}
        delimiter == IF file.sniff = "Error" THEN "None" ELSE file.sniff
    IN IF delimiter \in possible THEN Return(delimiter)
       ELSE RaiseCli("cannot detect the CSV delimiter", <<>>)

(* faulty variant of MulInt: the quantity is not applied *)
MulIntForgetsQty(d, n) == d
(* price * qty, and total + line_total: exact; a result of more than prec *)
(* digits is caught by the quantize that follows                           *)
MulInt(d, n) == Fin(d.neg, d.coef * n, d.exp)
Add(a, b) == Fin(FALSE, a.coef + b.coef, -2)

Item(product, price, qty, line_total) ==
    [product |-> product, price |-> Format2(price), qty |-> qty,
     line_total |-> Format2(line_total)]

(* the loop "for row in reader" of read_csv_rows and what follows it *)
RECURSIVE RowLoop(_, _, _, _)
RowLoop(fieldnames, rows, items, total) ==
    IF rows = <<>>
    THEN IF items = <<>> THEN RaiseCli("CSV has no data after the header", <<>>)
         ELSE IF QuantizeHalfUp(total) = -1 THEN Raise("InvalidOperation", "", <<>>)
         ELSE Return([items |-> items, total |-> Fin(FALSE, QuantizeHalfUp(total), -2)])
    ELSE LET row == Head(rows)
             product == Strip(OrEmpty(RowGet(fieldnames, row, Str_product, None)))
             price == parse_price(RowGet(fieldnames, row, Str_price, <<>>))
             qty == parse_qty(RowGet(fieldnames, row, Str_qty, <<>>))
             cents == QuantizeHalfUp(MulInt(price.val, qty.val))
             line_total == Fin(price.val.neg, cents, -2)
         IN IF product = <<>> THEN RaiseCli("empty product in a row", <<>>)
            ELSE IF ~price.ok THEN price
            ELSE IF ~qty.ok THEN qty
            ELSE IF cents = -1 THEN Raise("InvalidOperation", "", <<>>)
            ELSE RowLoop(fieldnames, Tail(rows),
                         Append(items, Item(product, price.val, qty.val, line_total)),
                         Add(total, line_total))

read_csv_rows(file) ==
    LET delimiter == detect_delimiter(file)
        fieldnames == Fieldnames(file.lines, delimiter.val)
        headers == {Lower(Strip(fieldnames[i])) : i \in DOMAIN fieldnames}
        required == {Str_product, Str_price, Str_qty}
        missing == required \ headers
    IN IF ~file.exists THEN RaiseCli("CSV file not found", <<>>)
       ELSE IF BlankText(file.lines) THEN RaiseCli("CSV is empty", <<>>)
       ELSE IF ~delimiter.ok THEN delimiter
       ELSE IF fieldnames = <<>>
            THEN RaiseCli("CSV has no header row", <<>>)
       ELSE IF missing # {} THEN RaiseCli("CSV lacks required columns", Sorted(missing))
       ELSE RowLoop(fieldnames, DictRows(Tail(file.lines), delimiter.val),
                    <<>>, Fin(FALSE, 0, -2))

-----------------------------------------------------------------------------
(* Templates *)

(* \w of the re module, for the characters the model's texts use *)
IsWord(c) == c \in Range(LowerLetters) \cup Range(UpperLetters) \cup DecDigits \cup {"_"}
WordAt(text, p) == p \in DOMAIN text /\ IsWord(text[p])
(* faulty variant of Boundary: the pattern without its \b *)
NoWordBoundary(text, p) == TRUE
(* \b between text[p - 1] and text[p] *)
Boundary(text, p) == WordAt(text, p - 1) # WordAt(text, p)

NameAt(text, name, k) ==
    k + Len(name) - 1 <= Len(text) /\ SubSeq(text, k, k + Len(name) - 1) = name
NoBrace(text, from, to) == \A m \in from..to : text[m] # "}"

(* pattern.search(template_text) for the pattern of ensure_placeholders:        *)
(* two opening braces, any characters but a closing brace, a word boundary, an  *)
(* optional "word." qualifier, the name, a word boundary, any characters but a  *)
(* closing brace, two closing braces. k is where the name starts, a where the   *)
(* qualifier (if any) starts, i and j where the braces start.                   *)
PatternSearch(text, name) ==
    \E k \in DOMAIN text :
        /\ NameAt(text, name, k)
        /\ Boundary(text, k + Len(name))
        /\ \E a \in 1..k :
              /\ \/ a = k
                 \/ /\ a <= k - 2
                    /\ text[k - 1] = "."
                    /\ \A m \in a..(k - 2) : IsWord(text[m])
              /\ Boundary(text, a)
              /\ \E i \in 1..(a - 2) :
                    text[i] = "{" /\ text[i + 1] = "{" /\ NoBrace(text, i + 2, a - 1)
        /\ \E j \in (k + Len(name))..(Len(text) - 1) :
              text[j] = "}" /\ text[j + 1] = "}" /\ NoBrace(text, k + Len(name), j - 1)

required_names == <<Str_product, Str_price, Str_qty, Str_total>>

ensure_placeholders(template_text) ==
    LET lacking == {n \in DOMAIN required_names :
                        ~PatternSearch(template_text, required_names[n])}
        first == CHOOSE n \in lacking : \A m \in lacking : n <= m
    IN IF lacking = {} THEN Return(None)
       ELSE RaiseCli("template lacks a placeholder", required_names[first])

(* A file at template_path: whether it exists, its text, and whether jinja2 *)
(* compiles it (Template(text)) and renders it (template.render(...))        *)
TemplateFileOf(exists, text, compiles, renders) ==
    [exists |-> exists, text |-> text, compiles |-> compiles, renders |-> renders]

load_template(file) ==
    IF ~file.exists THEN RaiseCli("template not found", <<>>)
    ELSE IF ~ensure_placeholders(file.text).ok THEN ensure_placeholders(file.text)
    ELSE IF ~file.compiles THEN Raise("TemplateSyntaxError", "", <<>>)
    ELSE Return(file.text)

-----------------------------------------------------------------------------
(* Inputs *)

RECURSIVE Texts(_, _)
Texts(alphabet, n) ==
    IF n = 0 THEN {<<>>}
    ELSE Texts(alphabet, n - 1) \cup
         {Append(t, c) : t \in Texts(alphabet, n - 1), c \in alphabet}

PriceAlphabet == {"0", "1", "5", ".", ",", "-", " "}
PriceLiterals ==
    { <<"N","a","N">>, <<"s","N","a","N">>, <<"-","n","a","n">>,
      <<"I","n","f","i","n","i","t","y">>, <<"i","n","f">>,
      <<"-","I","n","f","i","n","i","t","y">>,
      <<"1","e","3","0">>, <<"1","E","+","2">>, <<"5","e","-","3">>,
      <<"1",".","0","0","5">>, <<"0",".","9","9","5">>, <<"1",".","0","0","4">>,
      <<"1","2",",","5","0">>, <<"-","1",".","0","0">>, <<"1",",","5",".","0">>,
      <<"+","1",".","5">>, <<"a","b","c">>, <<" ","1",".","5","0"," ">>, None }
PriceInputs == Texts(PriceAlphabet, MaxPriceLen) \cup PriceLiterals

Str_Apple == <<"A","p","p","l","e">>
Str_Bread == <<"B","r","e","a","d">>
DataRow(product, price, qty) == [product |-> product, price |-> price, qty |-> qty]
DataRows ==
    { DataRow(Str_Apple, <<"1",".","5","0">>, <<"2">>),
      DataRow(Str_Bread, <<"0",".","9","9">>, <<"3">>),
      DataRow(Str_Apple, <<"1",".","0","0","5">>, <<"3">>),
      DataRow(<<>>, <<"1",".","5","0">>, <<"2">>),
      DataRow(<<" ">>, <<>>, <<>>),
      DataRow(Str_Apple, <<>>, <<"2">>),
      DataRow(Str_Apple, <<"1","2",",","5","0">>, <<"2">>),
      DataRow(Str_Apple, <<"-","1">>, <<"x">>),
      DataRow(Str_Apple, <<"N","a","N">>, <<"2">>),
      DataRow(Str_Apple, <<"1",".","5","0">>, <<"-","2">>),
      DataRow(Str_Apple, <<"1",".","5","0">>, <<Superscript2>>),
      DataRow(Str_Bread, <<"a","b","c">>, <<"1",".","5">>) }

HeaderLower == <<Str_product, Str_price, Str_qty>>
HeaderCapital == << <<"P","r","o","d","u","c","t">>, <<"P","r","i","c","e">>, <<"Q","t","y">> >>
HeaderReordered == <<Str_qty, Str_product, Str_price>>
HeaderNoQty == <<Str_product, Str_price>>
HeaderOnlyQty == <<Str_qty, <<"n","a","m","e">> >>
Headers == {HeaderLower, HeaderCapital, HeaderReordered, HeaderNoQty, HeaderOnlyQty, <<>>}

RECURSIVE Join(_, _)
Join(fields, sep) ==
    IF fields = <<>> THEN <<>>
    ELSE IF Len(fields) = 1 THEN fields[1]
    ELSE fields[1] \o <<sep>> \o Join(Tail(fields), sep)

(* the cell a data row has under a column of the header *)
Cell(r, column) ==
    IF Lower(column) = Str_product THEN r.product
    ELSE IF Lower(column) = Str_price THEN r.price
    ELSE IF Lower(column) = Str_qty THEN r.qty
    ELSE <<"x">>
RowLine(r, header, sep) == Join([j \in DOMAIN header |-> Cell(r, header[j])], sep)

(* the lines a file may hold after its header: data rows laid out under the *)
(* header, an empty line, a line of one field                                *)
BodyLines(header, sep) ==
    {RowLine(r, header, sep) : r \in DataRows} \cup {<<>>, Str_Apple}
RECURSIVE Bodies(_, _)
Bodies(L, n) ==
    IF n = 0 THEN {<<>>}
    ELSE Bodies(L, n - 1) \cup {Append(b, l) : b \in Bodies(L, n - 1), l \in L}

Occurs(c, lines) == \E i \in DOMAIN lines : c \in Range(lines[i])
(* the Sniffer proposes only a delimiter that occurs in the sample *)
SniffAnswers(lines) == {d \in {",", ";"} : Occurs(d, lines)} \cup {"Error"}

(* the files of the model: csv_path missing, empty, blank, or a header line *)
(* followed by up to MaxRows lines                                          *)
EmptyCsvInputs ==
    {CsvFileOf(FALSE, <<>>, "Error")} \cup
    {CsvFileOf(TRUE, lines, "Error") : lines \in {<<>>, << <<" ">>, <<>> >>}}
IsCsvInput(file) ==
    \/ file \in EmptyCsvInputs
    \/ \E h \in Headers, sep \in {",", ";"} :
          \E b \in Bodies(BodyLines(h, sep), MaxRows) :
             \E a \in SniffAnswers(<<Join(h, sep)>> \o b) :
                file = CsvFileOf(TRUE, <<Join(h, sep)>> \o b, a)

(* the ways a template text may mention a name *)
Fragments(name) ==
    { <<>>,
      <<"{","{">> \o name \o <<"}","}">>,
      <<"<","t","d",">","{","{"," ","i","t","e","m",".">> \o name \o <<" ","}","}">>,
      <<"{","{"," ","s","u","b">> \o name \o <<" ","}","}">>,
      <<"{"," ">> \o name \o <<" ","}">> }
TemplateInputs ==
    { a \o b \o c \o d : a \in Fragments(Str_product), b \in Fragments(Str_price),
                         c \in Fragments(Str_qty), d \in Fragments(Str_total) }

-----------------------------------------------------------------------------
(* State *)

NotCalled == Raise("", "not called", <<>>)

NoFile == CsvFileOf(FALSE, <<>>, "Error")

FunctionsIdle ==
    /\ priceRaw = <<>> /\ priceOut = NotCalled
    /\ tplText = <<>> /\ tplOut = NotCalled
    /\ csvFile = NoFile /\ csvOut = NotCalled

NoArgs == [input |-> NoFile, template |-> TemplateFileOf(FALSE, <<>>, FALSE, FALSE),
           auto_open |-> FALSE]
NoHtml == [template |-> <<>>, items |-> <<>>, total |-> <<>>, generated_at |-> -1]
NoPath == [dir |-> "", stamp |-> -1]
Dir(exists, files) == [exists |-> exists, files |-> files]
NoTrace == [entered |-> <<>>, failed |-> "", wrote |-> FALSE, openFailed |-> FALSE,
            dirAtStart |-> Dir(FALSE, {})]

MainIdle ==
    /\ pc = "idle" /\ args = NoArgs /\ loaded = NotCalled /\ html = NoHtml
    /\ pdf_path = NoPath /\ err = NotCalled /\ stdout = <<>> /\ exitCode = -1
    /\ outDir = Dir(FALSE, {}) /\ now = 0 /\ runs = 0 /\ trace = NoTrace
    /\ produced = <<>>

mainVars == <<pc, args, loaded, html, pdf_path, err, stdout, exitCode, outDir,
              now, runs, trace, produced>>
functionVars == <<priceRaw, priceOut, tplText, tplOut, csvFile, csvOut>>

-----------------------------------------------------------------------------
(* parse_price applied to one text *)

InitPrice ==
    /\ priceRaw \in PriceInputs /\ priceOut = NotCalled
    /\ tplText = <<>> /\ tplOut = NotCalled
    /\ csvFile = NoFile /\ csvOut = NotCalled
    /\ MainIdle

CallParsePrice ==
    /\ priceOut = NotCalled
    /\ priceOut' = parse_price(priceRaw)
    /\ UNCHANGED <<priceRaw, tplText, tplOut, csvFile, csvOut, mainVars>>

NextPrice == CallParsePrice
SpecPrice == InitPrice /\ [][NextPrice]_vars

-----------------------------------------------------------------------------
(* read_csv_rows applied to one file *)

InitCsv ==
    /\ IsCsvInput(csvFile) /\ csvOut = NotCalled
    /\ priceRaw = <<>> /\ priceOut = NotCalled
    /\ tplText = <<>> /\ tplOut = NotCalled
    /\ MainIdle

CallReadCsvRows ==
    /\ csvOut = NotCalled
    /\ csvOut' = read_csv_rows(csvFile)
    /\ UNCHANGED <<csvFile, priceRaw, priceOut, tplText, tplOut, mainVars>>

NextCsv == CallReadCsvRows
SpecCsv == InitCsv /\ [][NextCsv]_vars

-----------------------------------------------------------------------------
(* ensure_placeholders applied to one template text *)

InitTemplate ==
    /\ tplText \in TemplateInputs /\ tplOut = NotCalled
    /\ priceRaw = <<>> /\ priceOut = NotCalled
    /\ csvFile = NoFile /\ csvOut = NotCalled
    /\ MainIdle

CallEnsurePlaceholders ==
    /\ tplOut = NotCalled
    /\ tplOut' = ensure_placeholders(tplText)
    /\ UNCHANGED <<tplText, priceRaw, priceOut, csvFile, csvOut, mainVars>>

NextTemplate == CallEnsurePlaceholders
SpecTemplate == InitTemplate /\ [][NextTemplate]_vars

-----------------------------------------------------------------------------
(* build_html, render_pdf, open_pdf *)

(* strftime of datetime.now(): the clock reading cut to whole seconds *)
Timestamp(clock) == clock \div TicksPerSecond

build_html(file, template, items, total, clock) ==
    IF ~file.renders THEN Raise("TemplateError", "", <<>>)
    ELSE Return([template |-> template, items |-> items, total |-> Format2(total),
                 generated_at |-> Timestamp(clock)])

(* output_dir / f"check_{timestamp}.pdf" *)
OutputPath(clock) == [dir |-> "output", stamp |-> Timestamp(clock)]

WriteFile(dir, path, content) ==
    Dir(TRUE, {f \in dir.files : f.path # path} \cup {[path |-> path, content |-> content]})

(* render_pdf: its outcome and the output directory it leaves. env tells whether *)
(* mkdir, the import of weasyprint and write_pdf succeed.                        *)
render_pdf(html_content, dir, clock, env) ==
    LET made == Dir(TRUE, dir.files)
        output_path == OutputPath(clock)
    IN IF ~dir.exists /\ ~env.mkdir THEN [out |-> Raise("OSError", "", <<>>), dir |-> dir]
       ELSE IF ~env.import
            THEN [out |-> RaiseCli("cannot import WeasyPrint", <<>>), dir |-> made]
       ELSE IF ~env.write
            THEN [out |-> RaiseCli("PDF render failed", <<>>), dir |-> made]
       ELSE [out |-> Return(output_path), dir |-> WriteFile(made, output_path, html_content)]
RenderEnvs == [mkdir : BOOLEAN, import : BOOLEAN, write : BOOLEAN]

Line(kind, what) == [kind |-> kind, what |-> what]

(* open_pdf: the lines it prints; a failure of the open command is caught *)
open_pdf(path, opened) ==
    IF opened THEN <<>> ELSE <<Line("Warning: cannot open the PDF. File saved:", path)>>

-----------------------------------------------------------------------------
(* main *)

StageOrder == <<"read_csv_rows", "load_template", "build_html", "render_pdf", "open_pdf">>

(* where main() continues when a stage raises: the except clauses *)
(* faulty variant of OnFailure: a failure of load_template is swallowed *)
OnFailureSwallowed(stage) == IF stage = "load_template" THEN "build_html" ELSE "except"
OnFailure(stage) == "except"

Enter(stage) == [trace EXCEPT !.entered = Append(@, stage)]
Failed(stage) == [Enter(stage) EXCEPT !.failed = stage]

ValidCsv ==
    CsvFileOf(TRUE, <<Join(HeaderLower, ",")>> \o
        <<RowLine(DataRow(Str_Apple, <<"1",".","5","0">>, <<"2">>), HeaderLower, ","),
          RowLine(DataRow(Str_Bread, <<"0",".","9","9">>, <<"3">>), HeaderLower, ",")>>, ",")
NaNCsv ==
    CsvFileOf(TRUE, <<Join(HeaderLower, ",")>> \o
        <<RowLine(DataRow(Str_Apple, <<"N","a","N">>, <<"2">>), HeaderLower, ",")>>, ",")
HeaderOnlyCsv == CsvFileOf(TRUE, <<Join(HeaderLower, ",")>>, ",")
MainCsvInputs == {NoFile, ValidCsv, NaNCsv, HeaderOnlyCsv}

GoodTemplateText ==
    <<"{","{"," ","i","t","e","m",".">> \o Str_product \o <<" ","}","}">> \o
    <<"{","{"," ","i","t","e","m",".">> \o Str_price \o <<" ","}","}">> \o
    <<"{","{"," ","i","t","e","m",".">> \o Str_qty \o <<" ","}","}">> \o
    <<"{","{"," ">> \o Str_total \o <<" ","}","}">>
MainTemplateInputs ==
    { TemplateFileOf(FALSE, <<>>, FALSE, FALSE),
      TemplateFileOf(TRUE, GoodTemplateText, TRUE, TRUE),
      TemplateFileOf(TRUE, GoodTemplateText, TRUE, FALSE),
      TemplateFileOf(TRUE, GoodTemplateText, FALSE, FALSE),
      TemplateFileOf(TRUE, <<"{","{">> \o Str_product \o <<"}","}">>, TRUE, TRUE) }

Init ==
    /\ FunctionsIdle
    /\ pc = "idle" /\ args = NoArgs /\ loaded = NotCalled /\ html = NoHtml
    /\ pdf_path = NoPath /\ err = NotCalled /\ stdout = <<>> /\ exitCode = -1
    /\ outDir \in {Dir(FALSE, {}), Dir(TRUE, {})}
    /\ now = 0 /\ runs = 0 /\ trace = NoTrace /\ produced = <<>>

(* the clock advances *)
Tick ==
    /\ now < MaxClock
    /\ now' = now + 1
    /\ UNCHANGED <<functionVars, pc, args, loaded, html, pdf_path, err, stdout,
                   exitCode, outDir, runs, trace, produced>>

(* a process starts, which takes time: args = parse_arguments() *)
ParseArgs ==
    /\ pc \in {"idle", "exited"}
    /\ runs < MaxRuns
    /\ now < MaxClock
    /\ now' = now + 1
    /\ \E input \in MainCsvInputs, template \in MainTemplateInputs, auto_open \in BOOLEAN :
          args' = [input |-> input, template |-> template, auto_open |-> auto_open]
    /\ pc' = "read_csv_rows"
    /\ runs' = runs + 1
    /\ loaded' = NotCalled /\ html' = NoHtml /\ pdf_path' = NoPath /\ err' = NotCalled
    /\ stdout' = <<>> /\ exitCode' = -1
    /\ trace' = [NoTrace EXCEPT !.dirAtStart = outDir]
    /\ UNCHANGED <<functionVars, outDir, produced>>

(* items, total = read_csv_rows(csv_path) *)
ReadCsvRows ==
    /\ pc = "read_csv_rows"
    /\ LET r == read_csv_rows(args.input)
       IN IF r.ok
          THEN /\ loaded' = r /\ pc' = "load_template" /\ trace' = Enter("read_csv_rows")
               /\ UNCHANGED err
          ELSE /\ err' = r /\ pc' = OnFailure("read_csv_rows")
               /\ trace' = Failed("read_csv_rows") /\ UNCHANGED loaded
    /\ UNCHANGED <<functionVars, args, html, pdf_path, stdout, exitCode, outDir, now,
                   runs, produced>>

(* template = load_template(template_path) *)
LoadTemplate ==
    /\ pc = "load_template"
    /\ LET r == load_template(args.template)
       IN IF r.ok
          THEN /\ pc' = "build_html" /\ trace' = Enter("load_template") /\ UNCHANGED err
          ELSE /\ err' = r /\ pc' = OnFailure("load_template")
               /\ trace' = Failed("load_template")
    /\ UNCHANGED <<functionVars, args, loaded, html, pdf_path, stdout, exitCode, outDir,
                   now, runs, produced>>

(* html_content = build_html(template, items, total) *)
BuildHtml ==
    /\ pc = "build_html"
    /\ LET r == build_html(args.template, args.template.text, loaded.val.items,
                           loaded.val.total, now)
       IN IF r.ok
          THEN /\ html' = r.val /\ pc' = "render_pdf" /\ trace' = Enter("build_html")
               /\ UNCHANGED err
          ELSE /\ err' = r /\ pc' = OnFailure("build_html")
               /\ trace' = Failed("build_html") /\ UNCHANGED html
    /\ UNCHANGED <<functionVars, args, loaded, pdf_path, stdout, exitCode, outDir, now,
                   runs, produced>>

(* pdf_path = render_pdf(html_content, output_dir) *)
RenderPdf ==
    /\ pc = "render_pdf"
    /\ \E env \in RenderEnvs :
          LET r == render_pdf(html, outDir, now, env)
          IN /\ outDir' = r.dir
             /\ IF r.out.ok
                THEN /\ pdf_path' = r.out.val /\ pc' = "print"
                     /\ trace' = [Enter("render_pdf") EXCEPT !.wrote = TRUE]
                     /\ produced' = Append(produced, r.out.val)
                     /\ UNCHANGED err
                ELSE /\ err' = r.out /\ pc' = OnFailure("render_pdf")
                     /\ trace' = Failed("render_pdf")
                     /\ UNCHANGED <<pdf_path, produced>>
    /\ UNCHANGED <<functionVars, args, loaded, html, stdout, exitCode, now, runs>>

(* print(f"PDF created: {pdf_path}") *)
PrintSuccess ==
    /\ pc = "print"
    /\ stdout' = Append(stdout, Line("PDF created:", pdf_path))
    /\ pc' = IF args.auto_open THEN "open_pdf" ELSE "return"
    /\ UNCHANGED <<functionVars, args, loaded, html, pdf_path, err, exitCode, outDir,
                   now, runs, trace, produced>>

(* if args.auto_open: open_pdf(pdf_path) *)
(* faulty variant of OpenPdf: the failure of the open command is not caught *)
OpenPdfRaises ==
    /\ pc = "open_pdf"
    /\ \E opened \in BOOLEAN :
          /\ pc' = IF opened THEN "return" ELSE "except"
          /\ err' = IF opened THEN err ELSE Raise("CalledProcessError", "", <<>>)
          /\ trace' = [Enter("open_pdf") EXCEPT !.openFailed = ~opened]
    /\ UNCHANGED <<functionVars, args, loaded, html, pdf_path, stdout, exitCode, outDir,
                   now, runs, produced>>
OpenPdf ==
    /\ pc = "open_pdf"
    /\ \E opened \in BOOLEAN :
          /\ stdout' = stdout \o open_pdf(pdf_path, opened)
          /\ trace' = [Enter("open_pdf") EXCEPT !.openFailed = ~opened]
    /\ pc' = "return"
    /\ UNCHANGED <<functionVars, args, loaded, html, pdf_path, err, exitCode, outDir,
                   now, runs, produced>>

(* main() returns: the process exits with status 0 *)
ReturnFromMain ==
    /\ pc = "return"
    /\ exitCode' = 0
    /\ pc' = "exited"
    /\ UNCHANGED <<functionVars, args, loaded, html, pdf_path, err, stdout, outDir, now,
                   runs, trace, produced>>

(* except CliError as err: print, raise SystemExit(1) *)
ExceptCliError ==
    /\ pc = "except"
    /\ err.exc = "CliError"
    /\ stdout' = Append(stdout, Line("Error:", <<err.msg, err.detail>>))
    /\ exitCode' = 1
    /\ pc' = "exited"
    /\ UNCHANGED <<functionVars, args, loaded, html, pdf_path, err, outDir, now, runs,
                   trace, produced>>

(* except Exception as err: print, raise SystemExit(1) *)
(* faulty variant of ExceptException: the prefix of a CliError is printed *)
ExceptExceptionSamePrefix ==
    /\ pc = "except"
    /\ err.exc # "CliError"
    /\ stdout' = Append(stdout, Line("Error:", <<err.exc, err.detail>>))
    /\ exitCode' = 1
    /\ pc' = "exited"
    /\ UNCHANGED <<functionVars, args, loaded, html, pdf_path, err, outDir, now, runs,
                   trace, produced>>
ExceptException ==
    /\ pc = "except"
    /\ err.exc # "CliError"
    /\ stdout' = Append(stdout, Line("Unexpected error:", <<err.exc, err.detail>>))
    /\ exitCode' = 1
    /\ pc' = "exited"
    /\ UNCHANGED <<functionVars, args, loaded, html, pdf_path, err, outDir, now, runs,
                   trace, produced>>

Next ==
    \/ Tick
    \/ ParseArgs
    \/ ReadCsvRows
    \/ LoadTemplate
    \/ BuildHtml
    \/ RenderPdf
    \/ PrintSuccess
    \/ OpenPdf
    \/ ReturnFromMain
    \/ ExceptCliError
    \/ ExceptException

Spec == Init /\ [][Next]_vars

-----------------------------------------------------------------------------
(* Properties of main() *)

IsPrefix(a, b) == Len(a) <= Len(b) /\ SubSeq(b, 1, Len(a)) = a
Last(q) == q[Len(q)]

(* C1: the stages of a run are entered in the order read_csv_rows,             *)
(* load_template, build_html, render_pdf, open_pdf; no stage is entered after   *)
(* one that raised; after a failure of read_csv_rows or load_template           *)
(* render_pdf is not entered, the output directory is as it was when the run    *)
(* started and no PDF is written, and open_pdf is not entered; after a failure  *)
(* of render_pdf open_pdf is not entered.                                       *)
C1_StagesShortCircuit ==
    /\ IsPrefix(trace.entered, StageOrder)
    /\ trace.failed # "" => Last(trace.entered) = trace.failed
    /\ trace.failed \in {"read_csv_rows", "load_template"} =>
          /\ "render_pdf" \notin Range(trace.entered)
          /\ "open_pdf" \notin Range(trace.entered)
          /\ outDir = trace.dirAtStart
          /\ ~trace.wrote /\ pdf_path = NoPath
    /\ trace.failed = "render_pdf" => "open_pdf" \notin Range(trace.entered)
C1_Witness ==
    /\ pc = "exited" /\ trace.failed = "load_template"
    /\ trace.entered = <<"read_csv_rows", "load_template">>
    /\ ~trace.dirAtStart.exists

(* C2: a run that has ended has exit code 0 exactly when render_pdf wrote the  *)
(* PDF, and exit code 1 when a stage raised (a CliError or any other           *)
(* exception); when the open command fails under --open the run still exits 0  *)
(* and the PDF it wrote is in the output directory.                            *)
C2_ExitCode ==
    pc = "exited" =>
        /\ exitCode \in {0, 1}
        /\ exitCode = 0 <=> trace.wrote
        /\ trace.failed # "" => exitCode = 1
        /\ trace.openFailed =>
              /\ exitCode = 0
              /\ [path |-> pdf_path, content |-> html] \in outDir.files
C2_Witness == pc = "exited" /\ trace.openFailed /\ exitCode = 0 /\ args.auto_open

(* C3, as stated: a run that has ended has printed exactly one line, a success *)
(* line or an error line.                                                      *)
C3_ExactlyOneLine ==
    pc = "exited" =>
        /\ Len(stdout) = 1
        /\ stdout[1].kind \in {"PDF created:", "Error:", "Unexpected error:"}
(* C3, amended: a run that has ended has printed one line, the success line   *)
(* with the output path (exit 0) or an error line whose prefix tells a        *)
(* CliError from any other exception (exit 1), unless the open command failed *)
(* under --open: then it has printed two, the success line and after it the   *)
(* warning of open_pdf.                                                       *)
C3_StdoutLines ==
    pc = "exited" =>
        IF trace.openFailed
        THEN stdout = <<Line("PDF created:", pdf_path),
                        Line("Warning: cannot open the PDF. File saved:", pdf_path)>>
        ELSE /\ Len(stdout) = 1
             /\ exitCode = 0 => stdout[1] = Line("PDF created:", pdf_path)
             /\ exitCode = 1 =>
                   stdout[1].kind = IF err.exc = "CliError" THEN "Error:"
                                    ELSE "Unexpected error:"
C3_Witness == pc = "exited" /\ trace.openFailed /\ Len(stdout) = 2

(* C5, as stated: the successful runs into the output directory produced      *)
(* PDFs of pairwise distinct paths, so that none replaced the file of a prior *)
(* run.                                                                       *)
C5_DistinctOutputs ==
    \A i, j \in DOMAIN produced : i # j => produced[i] # produced[j]

-----------------------------------------------------------------------------
(* Properties of read_csv_rows *)

Called(out) == out # NotCalled
Hundredths(text) == DigitsValue(SelectSeq(text, LAMBDA c : c \in DecDigits))
RECURSIVE SumLineTotals(_)
SumLineTotals(items) ==
    IF items = <<>> THEN 0
    ELSE Hundredths(Head(items).line_total) + SumLineTotals(Tail(items))

(* C4: on success every item's line_total is its unit price times its quantity *)
(* and the total is the sum of the line totals, all in hundredths (a product   *)
(* of a two-digit price and an integer, and a sum of such, has two fractional  *)
(* digits, which rounding half-up to two digits leaves as they are).           *)
C4_Totals ==
    (Called(csvOut) /\ csvOut.ok) =>
        LET items == csvOut.val.items
        IN /\ \A i \in DOMAIN items :
                 /\ Len(items[i].line_total) >= 4
                 /\ items[i].line_total[Len(items[i].line_total) - 2] = "."
                 /\ Hundredths(items[i].line_total) =
                        Hundredths(items[i].price) * items[i].qty
           /\ csvOut.val.total.exp = -2
           /\ csvOut.val.total.coef = SumLineTotals(items)
C4_Witness ==
    /\ Called(csvOut) /\ csvOut.ok
    /\ Len(csvOut.val.items) = 2
    /\ csvOut.val.items[1].price = <<"1",".","0","1">>
    /\ csvOut.val.items[1].qty = 3
    /\ csvOut.val.total.coef = 600

(* the file with the fields of its header line put in lower case *)
WithLowerHeader(file) ==
    IF file.lines = <<>> THEN file
    ELSE [file EXCEPT !.lines = <<Lower(Head(file.lines))>> \o Tail(file.lines)]

(* C6, as stated: a file that loads once its header is put in lower case loads *)
(* as it is, with the same items and total.                                    *)
C6_CaseInsensitiveHeader ==
    (Called(csvOut) /\ read_csv_rows(WithLowerHeader(csvFile)).ok) =>
        csvOut = read_csv_rows(WithLowerHeader(csvFile))

(* the lines of the file after the header that are not empty, and the field a *)
(* line has under a column of the header                                      *)
DataLines(file) == SelectSeq(Tail(file.lines), LAMBDA l : l # <<>>)
ColumnOf(file, name) ==
    CHOOSE j \in DOMAIN SplitFields(Head(file.lines), file.sniff) :
        SplitFields(Head(file.lines), file.sniff)[j] = name
FieldOf(file, line, name) == SplitFields(line, file.sniff)[ColumnOf(file, name)]

(* C7: on success there is at least one item, one item per data line of the   *)
(* file, and the i-th item has the product, the price and the quantity of the *)
(* i-th data line.                                                            *)
C7_OneItemPerRow ==
    (Called(csvOut) /\ csvOut.ok) =>
        LET items == csvOut.val.items
            rows == DataLines(csvFile)
        IN /\ Len(items) >= 1
           /\ Len(items) = Len(rows)
           /\ \A i \in DOMAIN items :
                 /\ items[i].product = Strip(FieldOf(csvFile, rows[i], Str_product))
                 /\ items[i].price =
                        Format2(parse_price(FieldOf(csvFile, rows[i], Str_price)).val)
                 /\ items[i].qty = DigitsValue(Strip(FieldOf(csvFile, rows[i], Str_qty)))
C7_Witness ==
    /\ Called(csvOut) /\ csvOut.ok
    /\ Len(csvOut.val.items) = 2
    /\ csvOut.val.items[1] = csvOut.val.items[2]

(* what the checks of the loader, taken in their order, say of a file: the  *)
(* kind of the first failing check, or "ok"                                  *)
ColumnsOf(file) ==
    LET header == Fieldnames(file.lines, file.sniff)
    IN [j \in DOMAIN header |-> Lower(Strip(header[j]))]
FieldUnder(file, row, name) ==
    LET cols == {j \in DOMAIN ColumnsOf(file) : ColumnsOf(file)[j] = name}
        j == CHOOSE c \in cols : \A k \in cols : k <= c
    IN IF j <= Len(row) THEN Strip(row[j]) ELSE <<>>
PriceValid(text) ==
    /\ text # <<>>
    /\ ~("," \in Range(text) /\ "." \notin Range(text))
    /\ Decimal(text).kind = "fin"
    /\ ~IsNegative(Decimal(text))
QtyValid(text) == text # <<>> /\ AllDecDigits(text)
RowFailure(file, line) ==
    LET row == SplitFields(line, file.sniff)
    IN IF FieldUnder(file, row, Str_product) = <<>> THEN "EmptyProductError"
       ELSE IF ~PriceValid(FieldUnder(file, row, Str_price)) THEN "FormatError"
       ELSE IF ~QtyValid(FieldUnder(file, row, Str_qty)) THEN "FormatError"
       ELSE "ok"
FirstFailure(file) ==
    LET rows == DataLines(file)
        bad == {i \in DOMAIN rows : RowFailure(file, rows[i]) # "ok"}
        missing == {Str_product, Str_price, Str_qty} \ Range(ColumnsOf(file))
    IN IF ~file.exists THEN <<"NotFoundError", <<>> >>
       ELSE IF BlankText(file.lines) THEN <<"EmptyFileError", <<>> >>
       ELSE IF file.sniff \notin {",", ";"} THEN <<"DelimiterError", <<>> >>
       ELSE IF missing # {} THEN <<"MissingColumnsError", Sorted(missing)>>
       ELSE IF bad # {}
            THEN <<RowFailure(file, rows[CHOOSE i \in bad : \A k \in bad : i <= k]), <<>> >>
       ELSE IF rows = <<>> THEN <<"NoDataError", <<>> >>
       ELSE <<"ok", <<>> >>

(* the kind of failure an outcome of read_csv_rows reports *)
Reported(out) ==
    IF out.ok THEN <<"ok", <<>> >>
    ELSE IF out.exc # "CliError" THEN <<out.exc, <<>> >>
    ELSE IF out.msg = "CSV file not found" THEN <<"NotFoundError", <<>> >>
    ELSE IF out.msg = "CSV is empty" THEN <<"EmptyFileError", <<>> >>
    ELSE IF out.msg = "cannot detect the CSV delimiter" THEN <<"DelimiterError", <<>> >>
    ELSE IF out.msg = "CSV lacks required columns" THEN <<"MissingColumnsError", out.detail>>
    ELSE IF out.msg = "empty product in a row" THEN <<"EmptyProductError", <<>> >>
    ELSE IF out.msg \in {"price is not given", "price must use a dot, not a comma",
                         "invalid price", "price cannot be negative",
                         "quantity is not given", "quantity must be a non-negative integer"}
         THEN <<"FormatError", <<>> >>
    ELSE IF out.msg = "CSV has no data after the header" THEN <<"NoDataError", <<>> >>
    ELSE <<out.msg, <<>> >>

(* C8, as stated: read_csv_rows reports the failure of the first failing check *)
(* in the order file missing, content empty, delimiter not detected, required  *)
(* columns missing (named, sorted), then row by row product, price, quantity,  *)
(* and last no data row; it returns items only when no check fails.            *)
C8_FirstFailingCheck ==
    Called(csvOut) => Reported(csvOut) = FirstFailure(csvFile)

-----------------------------------------------------------------------------
(* Properties of parse_price *)

(* C9, as stated: parse_price returns a value of two fractional digits that is *)
(* not negative, or raises the CliError of one of its four checks; it has no   *)
(* other outcome.                                                              *)
C9_PriceOutcomes ==
    Called(priceOut) =>
        \/ /\ priceOut.ok
           /\ priceOut.val.kind = "fin" /\ priceOut.val.exp = -2
           /\ ~IsNegative(priceOut.val)
        \/ /\ ~priceOut.ok
           /\ priceOut.exc = "CliError"
           /\ priceOut.msg \in {"price is not given", "price must use a dot, not a comma",
                                "invalid price", "price cannot be negative"}

-----------------------------------------------------------------------------
(* Properties of ensure_placeholders *)

BracesAround(text, from, to) ==
    /\ \E i \in 1..(from - 2) :
          text[i] = "{" /\ text[i + 1] = "{" /\ NoBrace(text, i + 2, from - 1)
    /\ \E j \in (to + 1)..(Len(text) - 1) :
          text[j] = "}" /\ text[j + 1] = "}" /\ NoBrace(text, to + 1, j - 1)
(* a placeholder of the text contains the name / contains it as a whole word *)
ContainsName(text, name) ==
    \E k \in DOMAIN text :
        NameAt(text, name, k) /\ BracesAround(text, k, k + Len(name) - 1)
ContainsWord(text, name) ==
    \E k \in DOMAIN text :
        /\ NameAt(text, name, k) /\ BracesAround(text, k, k + Len(name) - 1)
        /\ ~WordAt(text, k - 1) /\ ~WordAt(text, k + Len(name))
LacksPlaceholder(name) == RaiseCli("template lacks a placeholder", name)

(* C10, as stated: a template with a placeholder that contains "total" in its *)
(* text, be it as part of "subtotal", passes the check of total.              *)
C10_SubstringAccepted ==
    (Called(tplOut) /\ ContainsName(tplText, Str_total)) =>
        tplOut # LacksPlaceholder(Str_total)
(* C10, amended: a name passes its check exactly when a placeholder contains  *)
(* it as a whole word; the check fails for the first of product, price, qty,  *)
(* total that none does, so a template whose placeholders hold total only     *)
(* within "subtotal" fails naming total once the other three pass.            *)
C10_WholeWordRequired ==
    Called(tplOut) =>
        LET lacking == {n \in DOMAIN required_names :
                            ~ContainsWord(tplText, required_names[n])}
        IN IF lacking = {} THEN tplOut.ok
           ELSE tplOut = LacksPlaceholder(
                    required_names[CHOOSE n \in lacking : \A m \in lacking : n <= m])
C10_Witness ==
    /\ Called(tplOut)
    /\ ContainsName(tplText, Str_total) /\ ~ContainsWord(tplText, Str_total)
    /\ tplOut = LacksPlaceholder(Str_total)

=============================================================================
